---------------------------- MODULE Spec2Model ----------------------------
(***************************************************************************)
(* A model of gym_simplifiedtetris' environment shell,                     *)
(* _SimplifiedTetrisBaseEnv (envs/_simplified_tetris_base_env.py): its     *)
(* constructor, reset and step.  The engine the shell drives               *)
(* (_simplified_tetris_engine.py) is modelled from its documented          *)
(* contract: a grid of occupied cells, one falling piece, hard drop, grid  *)
(* commit, row clearing, score and final-score history.                    *)
(*                                                                         *)
(* Two specifications:                                                     *)
(*   SpecInit  the constructor applied to arguments drawn from CtorArgs;   *)
(*   Spec      reset/step on an environment object holding the fields      *)
(*             lines 73-90 of the constructor assign, for the              *)
(*             configurations of EpisodeConfigs.                           *)
(***************************************************************************)
EXTENDS Integers, Sequences, FiniteSets

VARIABLES
    args,      \* the constructor's arguments, and whether the interpreter predates PEP 585
    outcome,   \* how the constructor ended: "new" (not yet called), "ok" or the error raised
    env,       \* the shell's own fields (self._height_, ...)
    engine,    \* the fields of self._engine
    ret,       \* what the last reset/step call returned or raised
    calls,     \* the engine calls the last reset/step made, in order
    ncalls     \* how many reset/step calls the object has served

vars == <<args, outcome, env, engine, ret, calls, ncalls>>

-----------------------------------------------------------------------------
(* Bounds of the model *)

\* reset and step calls explored on one environment object
MaxCalls == 6

-----------------------------------------------------------------------------
(* The constructor, __init__ *)

\* reward_range = (0, 4)
reward_range == <<0, 4>>

\* the piece sizes line 50 admits
PieceSizes == {1, 2, 3, 4}

\* the four lists of the membership test on lines 63-68
GridDimsWhitelist == {<<20, 10>>, <<10, 10>>, <<8, 6>>, <<7, 4>>}

\* list[grid_dims] not in [[20, 10], ...] (line 63).  list[grid_dims] subscripts
\* the type list: with PEP 585 (Python >= 3.9) it is the generic alias
\* list[8, 6], an object that equals no list, so the test is true for every
\* grid_dims; before PEP 585 the subscript itself raises TypeError.
GridDimsNotListed(grid_dims) ==
    LET alias == [origin |-> "list", args |-> grid_dims]
    IN  \A l \in GridDimsWhitelist : alias # [origin |-> "listobj", args |-> l]

\* a validation that looks at the length of grid_dims before piece_size
ValidateLengthFirst(a) ==
    IF Len(a.grid_dims) # 2 THEN "IndexError_grid_dims"
    ELSE IF a.piece_size \notin PieceSizes THEN "ValueError_piece_size"
    ELSE IF a.pre_pep585 THEN "TypeError_subscript"
    ELSE IF GridDimsNotListed(a.grid_dims) THEN "ValueError_grid_dims"
    ELSE "ok"

\* a validation that tests the listed pairs before the length of grid_dims
ValidateListFirst(a) ==
    IF a.piece_size \notin PieceSizes THEN "ValueError_piece_size"
    ELSE IF a.pre_pep585 THEN "TypeError_subscript"
    ELSE IF GridDimsNotListed(a.grid_dims) THEN "ValueError_grid_dims"
    ELSE IF Len(a.grid_dims) # 2 THEN "IndexError_grid_dims"
    ELSE "ok"

\* the first failing check of lines 50-71, or "ok"
Validate(a) ==
    IF a.piece_size \notin PieceSizes THEN "ValueError_piece_size"
    ELSE IF Len(a.grid_dims) # 2 THEN "IndexError_grid_dims"
    ELSE IF a.pre_pep585 THEN "TypeError_subscript"
    ELSE IF GridDimsNotListed(a.grid_dims) THEN "ValueError_grid_dims"
    ELSE "ok"

\* the dict with the size-3 entry copied to size 4
DerivedValuesCopied(grid_dims, piece_size) ==
    CASE piece_size = 1 -> <<grid_dims[2], 1>>
      [] piece_size = 2 -> <<2 * grid_dims[2] - 1, 1>>
      [] piece_size = 3 -> <<4 * grid_dims[2] - 4, 2>>
      [] piece_size = 4 -> <<4 * grid_dims[2] - 4, 7>>

\* the dict of lines 76-81, indexed by piece_size: (num_actions, num_pieces)
DerivedValues(grid_dims, piece_size) ==
    CASE piece_size = 1 -> <<grid_dims[2], 1>>
      [] piece_size = 2 -> <<2 * grid_dims[2] - 1, 1>>
      [] piece_size = 3 -> <<4 * grid_dims[2] - 4, 2>>
      [] piece_size = 4 -> <<4 * grid_dims[2] - 6, 7>>

\* the shell's fields before __init__ has assigned any
NoEnv ==
    [_height_ |-> 0, _width_ |-> 0, _piece_size_ |-> 0,
     _num_actions_ |-> 0, _num_pieces_ |-> 0, _np_random |-> "unset",
     has_engine |-> FALSE, engine_kwargs |-> {}]

\* _seed(seed), lines 160-165: self._np_random is a generator seeded with seed
_seed == "np_random(seed)"

\* the keyword arguments the engine is created with, lines 85-90
EngineKwargs == {"grid_dims", "piece_size", "num_pieces", "num_actions"}

\* lines 73-90: the fields __init__ assigns once validation has passed
EnvFields(grid_dims, piece_size) ==
    [_height_ |-> grid_dims[1], _width_ |-> grid_dims[2],
     _piece_size_ |-> piece_size,
     _num_actions_ |-> DerivedValues(grid_dims, piece_size)[1],
     _num_pieces_ |-> DerivedValues(grid_dims, piece_size)[2],
     _np_random |-> _seed,
     has_engine |-> TRUE, engine_kwargs |-> EngineKwargs]

\* spaces.Discrete(self._num_actions_): the indices 0 .. n-1
action_space(e) == 0 .. (e._num_actions_ - 1)

-----------------------------------------------------------------------------
(* The engine, self._engine: the contract the shell relies on *)

\* a cell is <<x, y>>: column x counted from the left, row y counted from the
\* top, so that _grid[:, :piece_size] is the cells with y < piece_size
Cells(e) == (0 .. (e._width_ - 1)) \X (0 .. (e._height_ - 1))

\* the cells of a piece relative to its anchor.  Size 1: a single block.
\* Size 2: a domino, upright above the anchor (rotation 0) or lying to the
\* right of it (rotation 1).  Episodes are explored for these two families.
PieceCoords(piece_size, rotation) ==
    CASE piece_size = 1 -> {<<0, 0>>}
      [] piece_size = 2 /\ rotation = 0 -> {<<0, 0>>, <<0, -1>>}
      [] piece_size = 2 /\ rotation = 1 -> {<<0, 0>>, <<1, 0>>}

\* the cells the piece covers with its anchor at `anchor`
PieceCells(e, g, anchor) ==
    {<<anchor[1] + c[1], anchor[2] + c[2]>> :
        c \in PieceCoords(e._piece_size_, g._rotation)}

\* the piece sticks out of the grid or overlaps an occupied cell
_is_illegal(e, g, anchor) ==
    \E c \in PieceCells(e, g, anchor) : c \notin Cells(e) \/ c \in g._grid

\* decode_action: the enumeration of (translation, rotation) pairs.  Size 1:
\* one action per column.  Size 2: the W upright placements, then the W-1
\* lying ones.
_get_translation_rotation(e, action) ==
    IF e._piece_size_ = 1 THEN <<action, 0>>
    ELSE IF action < e._width_ THEN <<action, 0>>
    ELSE <<action - e._width_, 1>>

\* an index outside [0, num_actions) is refused with an invalid-action error
DecodeRaises(e, action) == action \notin 0 .. (e._num_actions_ - 1)

\* set_rotation
_rotate_piece(g, rotation) == [g EXCEPT !._rotation = rotation]

\* the lowest row the anchor reaches moving down from row y without collision
RECURSIVE DropRow(_, _, _)
DropRow(e, g, y) ==
    IF y < e._height_ /\ ~_is_illegal(e, g, <<g._anchor[1], y + 1>>)
    THEN DropRow(e, g, y + 1)
    ELSE y

\* hard_drop: settle the piece downward until collision
_hard_drop(e, g) ==
    [g EXCEPT !._anchor = <<g._anchor[1], DropRow(e, g, g._anchor[2])>>]

\* update_grid(commit): bake the settled piece into the grid
_update_grid(e, g, commit) ==
    IF commit
    THEN [g EXCEPT !._grid = g._grid \cup (PieceCells(e, g, g._anchor) \cap Cells(e))]
    ELSE [g EXCEPT !._grid = g._grid \ PieceCells(e, g, g._anchor)]

\* the rows every cell of which is occupied
FullRows(e, grid) ==
    {y \in 0 .. (e._height_ - 1) : \A x \in 0 .. (e._width_ - 1) : <<x, y>> \in grid}

\* line clear: remove the full rows and move the rows above them down
ClearRows(e, grid) ==
    LET full == FullRows(e, grid)
    IN  {<<c[1], c[2] + Cardinality({r \in full : r > c[2]})>> :
            c \in {d \in grid : d[2] \notin full}}

\* compute_reward: <<reward, rows_cleared, the engine afterwards>>; the reward
\* is the number of rows cleared, as a float
_engine_get_reward(e, g) ==
    LET n == Cardinality(FullRows(e, g._grid))
    IN  <<n, n, [g EXCEPT !._grid = ClearRows(e, g._grid)]>>

\* where a fresh piece is anchored
SpawnAnchor(e) == <<e._width_ \div 2 - 1, e._piece_size_ - 1>>

\* advance_piece_and_anchor: draw the next piece (p, from the generator) and
\* reset the anchor
_update_coords_and_anchor(e, g, p) ==
    [g EXCEPT !._piece = p, !._rotation = 0, !._anchor = SpawnAnchor(e)]

\* the piece shapes the generator draws from
PieceIds(e) == 0 .. (e._num_pieces_ - 1)

\* reset: clear the grid, reset the score to 0, draw a new piece; the final
\* scores are kept
_reset(e, g, p) ==
    _update_coords_and_anchor(e, [g EXCEPT !._grid = {}, !._score = 0], p)

\* the engine as its constructor leaves it
NewEngine(e, p) ==
    [_grid |-> {}, _piece |-> p, _rotation |-> 0, _anchor |-> SpawnAnchor(e),
     _score |-> 0, _final_scores |-> <<>>]

\* no engine yet
NoEngine ==
    [_grid |-> {}, _piece |-> 0, _rotation |-> 0, _anchor |-> <<0, 0>>,
     _score |-> 0, _final_scores |-> <<>>]

-----------------------------------------------------------------------------
(* reset and step *)

\* what a call to reset or step hands back: the operation, the error it
\* raised ("none" when it returned), the action it was given, and the
\* returned reward, done and info
Returned(op, action, reward, done, anchor, rows) ==
    [op |-> op, raised |-> "none", action |-> action, reward |-> reward,
     done |-> done, info |-> [anchor |-> anchor, num_rows_cleared |-> rows]]

Raised(op, action, error) ==
    [op |-> op, raised |-> error, action |-> action, reward |-> 0,
     done |-> FALSE, info |-> [anchor |-> <<0, 0>>, num_rows_cleared |-> 0]]

NoCall == Returned("none", 0, 0, FALSE, <<0, 0>>, 0)

\* a terminal reward that penalises the end of the game
_get_terminal_reward_penalty == 0 - 1

\* _get_terminal_reward: return 0.0
_get_terminal_reward == 0

\* _get_reward: return self._engine._get_reward()
_get_reward(e, g) == _engine_get_reward(e, g)

\* a test of the top rows made on the grid with its full rows cleared
TopRowsOccupiedAfterClear(e, g) ==
    \E c \in ClearRows(e, g._grid) : c[2] < e._piece_size_

\* a test that looks at one row fewer
TopRowsOccupiedOneRowLess(e, g) == \E c \in g._grid : c[2] < e._piece_size_ - 1

\* np.any(self._engine._grid[:, : self._piece_size_]) (line 131)
TopRowsOccupied(e, g) == \E c \in g._grid : c[2] < e._piece_size_

\* a placement that drops the piece before it rotates and anchors it
PlacePieceDropFirst(e, g, tr) ==
    LET dropped  == _hard_drop(e, g)
        rotated  == _rotate_piece(dropped, tr[2])
        anchored == [rotated EXCEPT !._anchor = <<tr[1], dropped._anchor[2]>>]
    IN  _update_grid(e, anchored, TRUE)

\* lines 120-127 for a decoded action: rotate, anchor at (translation,
\* piece_size - 1), hard drop, commit to the grid
PlacePiece(e, g, tr) ==
    LET rotated  == _rotate_piece(g, tr[2])
        anchored == [rotated EXCEPT !._anchor = <<tr[1], e._piece_size_ - 1>>]
        dropped  == _hard_drop(e, anchored)
    IN  _update_grid(e, dropped, TRUE)

PlaceCalls ==
    <<"_get_translation_rotation", "_rotate_piece", "_anchor=",
      "_hard_drop", "_update_grid", "check_top_rows">>

\* a terminal return that records the terminal reward, not the score
TerminalBranchAppendsReward(e, placed, action, tr) ==
    [engine |-> [placed EXCEPT
                    !._final_scores = Append(placed._final_scores, _get_terminal_reward)],
     ret    |-> Returned("step", action, _get_terminal_reward, TRUE, tr, 0),
     calls  |-> PlaceCalls \o <<"_final_scores.append", "_get_obs", "_get_terminal_reward">>]

\* a terminal return that reports the rows the dropped piece completed
TerminalBranchRewarded(e, placed, action, tr) ==
    [engine |-> [placed EXCEPT
                    !._final_scores = Append(placed._final_scores, placed._score)],
     ret    |-> Returned("step", action, _get_reward(e, placed)[1], TRUE, tr,
                         _get_reward(e, placed)[2]),
     calls  |-> PlaceCalls \o <<"_final_scores.append", "_get_obs", "_get_reward">>]

\* lines 132-136: the terminal return
TerminalBranch(e, placed, action, tr) ==
    [engine |-> [placed EXCEPT
                    !._final_scores = Append(placed._final_scores, placed._score)],
     ret    |-> Returned("step", action, _get_terminal_reward, TRUE, tr, 0),
     calls  |-> PlaceCalls \o <<"_final_scores.append", "_get_obs", "_get_terminal_reward">>]

\* a non-terminal return that evaluates the reward once for the reward and
\* once more for the rows added to the score
NonTerminalBranchTwice(e, placed, action, tr, p) ==
    LET rw      == _get_reward(e, placed)
        again   == _get_reward(e, rw[3])
        scored  == [again[3] EXCEPT !._score = again[3]._score + again[2]]
        advanced == _update_coords_and_anchor(e, scored, p)
    IN  [engine |-> advanced,
         ret    |-> Returned("step", action, rw[1], FALSE, tr, rw[2]),
         calls  |-> PlaceCalls \o <<"_get_reward", "_get_reward", "_score+=",
                                    "_update_coords_and_anchor", "_get_obs">>]

\* a non-terminal return that also records the score in final_scores
NonTerminalBranchAppends(e, placed, action, tr, p) ==
    LET rw      == _get_reward(e, placed)
        scored  == [rw[3] EXCEPT !._score = rw[3]._score + rw[2],
                                 !._final_scores = Append(rw[3]._final_scores, rw[3]._score)]
        advanced == _update_coords_and_anchor(e, scored, p)
    IN  [engine |-> advanced,
         ret    |-> Returned("step", action, rw[1], FALSE, tr, rw[2]),
         calls  |-> PlaceCalls \o <<"_get_reward", "_score+=",
                                    "_update_coords_and_anchor", "_get_obs">>]

\* a non-terminal return that assigns the rows cleared to the score
NonTerminalBranchAssigns(e, placed, action, tr, p) ==
    LET rw      == _get_reward(e, placed)
        scored  == [rw[3] EXCEPT !._score = rw[2]]
        advanced == _update_coords_and_anchor(e, scored, p)
    IN  [engine |-> advanced,
         ret    |-> Returned("step", action, rw[1], FALSE, tr, rw[2]),
         calls  |-> PlaceCalls \o <<"_get_reward", "_score+=",
                                    "_update_coords_and_anchor", "_get_obs">>]

\* lines 138-145: reward, score, next piece (p), the non-terminal return
NonTerminalBranch(e, placed, action, tr, p) ==
    LET rw      == _get_reward(e, placed)
        scored  == [rw[3] EXCEPT !._score = rw[3]._score + rw[2]]
        advanced == _update_coords_and_anchor(e, scored, p)
    IN  [engine |-> advanced,
         ret    |-> Returned("step", action, rw[1], FALSE, tr, rw[2]),
         calls  |-> PlaceCalls \o <<"_get_reward", "_score+=",
                                    "_update_coords_and_anchor", "_get_obs">>]

\* a step that evaluates the reward (clearing rows) before it looks at the
\* top rows
step_reward_first(e, g, action, p) ==
    IF DecodeRaises(e, action)
    THEN [engine |-> g, ret |-> Raised("step", action, "InvalidAction"),
          calls |-> <<"_get_translation_rotation">>]
    ELSE LET tr     == _get_translation_rotation(e, action)
             placed == PlacePiece(e, g, tr)
             rw     == _get_reward(e, placed)
             scored == [rw[3] EXCEPT !._score = rw[3]._score + rw[2]]
         IN  IF TopRowsOccupied(e, rw[3])
             THEN [engine |-> [scored EXCEPT !._final_scores =
                                  Append(scored._final_scores, scored._score)],
                   ret    |-> Returned("step", action, _get_terminal_reward, TRUE, tr, 0),
                   calls  |-> <<"_get_translation_rotation", "_rotate_piece", "_anchor=",
                                "_hard_drop", "_update_grid", "_get_reward", "_score+=",
                                "check_top_rows", "_final_scores.append", "_get_obs",
                                "_get_terminal_reward">>]
             ELSE [engine |-> _update_coords_and_anchor(e, scored, p),
                   ret    |-> Returned("step", action, rw[1], FALSE, tr, rw[2]),
                   calls  |-> <<"_get_translation_rotation", "_rotate_piece", "_anchor=",
                                "_hard_drop", "_update_grid", "_get_reward", "_score+=",
                                "check_top_rows", "_update_coords_and_anchor", "_get_obs">>]

\* a step that wraps the action index into [0, num_actions)
step_wraps(e, g, action, p) ==
    LET a      == action % e._num_actions_
        tr     == _get_translation_rotation(e, a)
        placed == PlacePiece(e, g, tr)
    IN  IF TopRowsOccupied(e, placed)
        THEN TerminalBranch(e, placed, action, tr)
        ELSE NonTerminalBranch(e, placed, action, tr, p)

\* step(action), lines 118-145; p is the piece the generator draws if the
\* step gets to _update_coords_and_anchor
step(e, g, action, p) ==
    IF DecodeRaises(e, action)
    THEN [engine |-> g, ret |-> Raised("step", action, "InvalidAction"),
          calls |-> <<"_get_translation_rotation">>]
    ELSE LET tr     == _get_translation_rotation(e, action)
             placed == PlacePiece(e, g, tr)
         IN  IF TopRowsOccupied(e, placed)
             THEN TerminalBranch(e, placed, action, tr)
             ELSE NonTerminalBranch(e, placed, action, tr, p)

\* reset(), lines 104-105
reset(e, g, p) ==
    [engine |-> _reset(e, g, p),
     ret    |-> Returned("reset", 0, 0, FALSE, <<0, 0>>, 0),
     calls  |-> <<"_reset", "_get_obs">>]

-----------------------------------------------------------------------------
(* Spec: episodes *)

\* the configurations episodes are explored for: the smallest listed grid
\* with the pieces of size 1 and 2
EpisodeConfigs == {<<<<7, 4>>, 1>>, <<<<7, 4>>, 2>>}

\* the action indices tried: the declared action space and the two indices
\* next to it, -1 and num_actions
ActionsTried(e) == action_space(e) \cup {-1, e._num_actions_}

Init ==
    \E c \in EpisodeConfigs :
        /\ args = [grid_dims |-> c[1], piece_size |-> c[2], pre_pep585 |-> FALSE]
        /\ outcome = "ok"
        /\ env = EnvFields(c[1], c[2])
        /\ \E p \in PieceIds(EnvFields(c[1], c[2])) :
              engine = NewEngine(EnvFields(c[1], c[2]), p)
        /\ ret = NoCall
        /\ calls = <<>>
        /\ ncalls = 0

Reset ==
    /\ outcome = "ok"
    /\ ncalls < MaxCalls
    /\ ncalls' = ncalls + 1
    /\ \E p \in PieceIds(env) :
          LET r == reset(env, engine, p)
          IN  /\ engine' = r.engine
              /\ ret' = r.ret
              /\ calls' = r.calls
    /\ UNCHANGED <<args, outcome, env>>

Step ==
    /\ outcome = "ok"
    /\ ncalls < MaxCalls
    /\ ncalls' = ncalls + 1
    /\ \E action \in ActionsTried(env), p \in PieceIds(env) :
          LET r == step(env, engine, action, p)
          IN  /\ engine' = r.engine
              /\ ret' = r.ret
              /\ calls' = r.calls
    /\ UNCHANGED <<args, outcome, env>>

Next == Reset \/ Step

Spec == Init /\ [][Next]_vars

-----------------------------------------------------------------------------
(* SpecInit: the constructor *)

\* the grid_dims values tried: the four listed pairs, two unlisted pairs
\* ((9, 9), and main's (6, 10) in run_heuristic.py), and tuples of length 0, 1
\* and 3
GridDimsTried ==
    GridDimsWhitelist \cup {<<9, 9>>, <<6, 10>>, <<>>, <<10>>, <<20, 10, 1>>}

\* the piece_size values tried
PieceSizesTried == 0 .. 5

CtorArgs ==
    [grid_dims : GridDimsTried, piece_size : PieceSizesTried, pre_pep585 : BOOLEAN]

InitCtor ==
    /\ args \in CtorArgs
    /\ outcome = "new"
    /\ env = NoEnv
    /\ engine = NoEngine
    /\ ret = NoCall
    /\ calls = <<>>
    /\ ncalls = 0

\* __init__(grid_dims, piece_size), lines 50-90
Construct ==
    /\ outcome = "new"
    /\ outcome' = Validate(args)
    /\ IF Validate(args) = "ok"
       THEN /\ env' = EnvFields(args.grid_dims, args.piece_size)
            /\ \E p \in PieceIds(EnvFields(args.grid_dims, args.piece_size)) :
                  engine' = NewEngine(EnvFields(args.grid_dims, args.piece_size), p)
       ELSE UNCHANGED <<env, engine>>
    /\ UNCHANGED <<args, ret, calls, ncalls>>

NextCtor == Construct

SpecInit == InitCtor /\ [][NextCtor]_vars

-----------------------------------------------------------------------------
(* SpecDecode: the placements an action index can stand for *)

\* the pieces of each size, as cells relative to the anchor (y grows
\* downward): the monomino; the domino; the I and L trominoes; the I, O, T, L,
\* J, S and Z tetrominoes.  Their numbers are the num_pieces of lines 77-80.
Shapes(piece_size) ==
    CASE piece_size = 1 -> << {<<0, 0>>} >>
      [] piece_size = 2 -> << {<<0, 0>>, <<0, -1>>} >>
      [] piece_size = 3 -> << {<<0, 0>>, <<0, -1>>, <<0, -2>>},
                              {<<0, 0>>, <<1, 0>>, <<0, -1>>} >>
      [] piece_size = 4 -> << {<<0, 0>>, <<0, -1>>, <<0, -2>>, <<0, -3>>},
                              {<<0, 0>>, <<1, 0>>, <<0, -1>>, <<1, -1>>},
                              {<<0, 0>>, <<-1, 0>>, <<1, 0>>, <<0, -1>>},
                              {<<0, 0>>, <<0, -1>>, <<0, -2>>, <<1, 0>>},
                              {<<0, 0>>, <<0, -1>>, <<0, -2>>, <<-1, 0>>},
                              {<<0, 0>>, <<-1, 0>>, <<0, -1>>, <<1, -1>>},
                              {<<0, 0>>, <<1, 0>>, <<0, -1>>, <<-1, -1>>} >>

\* the shape of piece p (pieces are numbered from 0)
Shape(piece_size, p) == Shapes(piece_size)[p + 1]

\* a shape turned by k quarter turns about the anchor
RECURSIVE Turned(_, _)
Turned(shape, k) ==
    IF k = 0 THEN shape
    ELSE Turned({<<0 - c[2], c[1]>> : c \in shape}, k - 1)

MinOf(S) == CHOOSE m \in S : \A n \in S : m <= n
MaxOf(S) == CHOOSE m \in S : \A n \in S : m >= n

\* a shape moved so that its leftmost column is 0 and its topmost row is 0
Normalized(shape) ==
    LET x0 == MinOf({c[1] : c \in shape})
        y0 == MinOf({c[2] : c \in shape})
    IN  {<<c[1] - x0, c[2] - y0>> : c \in shape}

\* the distinct orientations of a shape
Orientations(shape) == {Normalized(Turned(shape, k)) : k \in 0 .. 3}

\* the distinct physical placements of a shape on a grid of width W: an
\* orientation and the column of its leftmost cell
Placements(W, shape) ==
    {<<o, t>> \in Orientations(shape) \X (0 .. (W - 1)) :
        t + MaxOf({c[1] : c \in o}) <= W - 1}

\* the physical placement the pair tr = (translation, rotation) stands for,
\* for the pieces whose decoding is modelled (size 1 and 2)
PlacementOf(e, tr) ==
    LET cells == {<<tr[1] + c[1], c[2]>> : c \in PieceCoords(e._piece_size_, tr[2])}
    IN  <<Normalized(cells), MinOf({c[1] : c \in cells})>>

InitDecode ==
    \E d \in GridDimsWhitelist, s \in PieceSizes :
        /\ args = [grid_dims |-> d, piece_size |-> s, pre_pep585 |-> FALSE]
        /\ outcome = "ok"
        /\ env = EnvFields(d, s)
        /\ \E p \in PieceIds(EnvFields(d, s)) : engine = NewEngine(EnvFields(d, s), p)
        /\ ret = NoCall
        /\ calls = <<>>
        /\ ncalls = 0

\* lines 122-123 for one (translation, rotation) pair that keeps the piece
\* inside the columns of the grid
Orient ==
    /\ outcome = "ok"
    /\ \E k \in 0 .. 3, t \in 0 .. (env._width_ - 1) :
          /\ \A c \in Turned(Shape(env._piece_size_, engine._piece), k) :
                t + c[1] \in 0 .. (env._width_ - 1)
          /\ engine' = [engine EXCEPT !._rotation = k,
                                      !._anchor = <<t, env._piece_size_ - 1>>]
    /\ calls' = <<"_rotate_piece", "_anchor=">>
    /\ UNCHANGED <<args, outcome, env, ret, ncalls>>

NextDecode == Orient

SpecDecode == InitDecode /\ [][NextDecode]_vars

-----------------------------------------------------------------------------
(* Properties *)

\* the elements of a sequence
Range(q) == {q[i] : i \in 1 .. Len(q)}

\* the first position of x in q (0 when absent)
Pos(q, x) ==
    IF x \in Range(q) THEN CHOOSE i \in 1 .. Len(q) : q[i] = x /\ \A j \in 1 .. (i - 1) : q[j] # x
    ELSE 0

\* how often x occurs in q
Count(q, x) == Cardinality({i \in 1 .. Len(q) : q[i] = x})

\* q is an initial segment of r
IsPrefix(q, r) == Len(q) <= Len(r) /\ \A i \in 1 .. Len(q) : q[i] = r[i]

\* the transition is a step call that returned (did not raise)
StepReturned == ret'.op = "step" /\ ret'.raised = "none"

\* C1: a step that returns done = True leaves final_scores one entry longer:
\* the entries held before, followed by the running score held before the step.
C1_TerminalStepAppendsScore ==
    [][(StepReturned /\ ret'.done) =>
          /\ Len(engine'._final_scores) = Len(engine._final_scores) + 1
          /\ engine'._final_scores[Len(engine'._final_scores)] = engine._score
          /\ IsPrefix(engine._final_scores, engine'._final_scores)]_vars

\* a terminal step of an episode in which rows were cleared
C1_Witness ==
    /\ ret.op = "step" /\ ret.done
    /\ engine._score > 0
    /\ engine._final_scores = <<engine._score>>

\* C2: a step issued in the TERMINAL state (the last call was a step that
\* returned done = True) changes neither the grid, the running score nor
\* final_scores.
C2_StepAfterTerminalChangesNothing ==
    [][(ret.op = "step" /\ ret.done /\ ret'.op = "step") =>
          /\ engine'._grid = engine._grid
          /\ engine'._score = engine._score
          /\ engine'._final_scores = engine._final_scores]_vars

\* C3: with a valid piece_size and a two-element grid_dims the constructor
\* raises exactly when grid_dims is not one of the four listed pairs, and
\* grid_dims = (8, 6), piece_size = 4 gives num_actions = 18, num_pieces = 7.
C3_RejectsExactlyUnlisted ==
    (outcome # "new" /\ args.piece_size \in PieceSizes /\ Len(args.grid_dims) = 2) =>
        /\ (outcome # "ok") <=> (args.grid_dims \notin GridDimsWhitelist)
        /\ (args.grid_dims = <<8, 6>> /\ args.piece_size = 4) =>
              (env._num_actions_ = 18 /\ env._num_pieces_ = 7)

\* C4: for piece_size 1, 2, 3, 4 and a listed grid of width W the constructor
\* sets num_actions to W, 2W-1, 4W-4, 4W-6, and the action space has that
\* many elements.
C4_NumActionsClosedForm ==
    (outcome # "new" /\ args.piece_size \in PieceSizes
        /\ args.grid_dims \in GridDimsWhitelist) =>
        LET W == args.grid_dims[2]
        IN  /\ args.piece_size = 1 => env._num_actions_ = W
            /\ args.piece_size = 2 => env._num_actions_ = 2 * W - 1
            /\ args.piece_size = 3 => env._num_actions_ = 4 * W - 4
            /\ args.piece_size = 4 => env._num_actions_ = 4 * W - 6
            /\ Cardinality(action_space(env)) = env._num_actions_
            /\ env._num_actions_ > 0

\* C5: a terminal step never evaluates the reward, clears no row, leaves the
\* score and the current piece alone and does not reset the anchor; a
\* non-terminal step evaluates the reward after the look at the top rows and
\* before the piece is advanced.
C5_TerminationBeforeReward ==
    [][StepReturned =>
          IF ret'.done
          THEN /\ "_get_reward" \notin Range(calls')
               /\ "_update_coords_and_anchor" \notin Range(calls')
               /\ engine'._score = engine._score
               /\ engine'._piece = engine._piece
               /\ engine'._anchor[1] = ret'.info.anchor[1]
               /\ engine._grid \subseteq engine'._grid
          ELSE /\ 0 < Pos(calls', "check_top_rows")
               /\ Pos(calls', "check_top_rows") < Pos(calls', "_get_reward")
               /\ Pos(calls', "_get_reward") < Pos(calls', "_update_coords_and_anchor")]_vars

\* a first terminal step whose piece completed a row, which stays in the grid
C5_Witness ==
    /\ ret.op = "step" /\ ret.done
    /\ Len(engine._final_scores) = 1
    /\ FullRows(env, engine._grid) # {}
    /\ "_get_reward" \notin Range(calls)

\* C6: a terminal step (the top piece_size rows are occupied after the drop)
\* returns reward 0.0, done = True and num_rows_cleared = 0.
C6_TerminalRewardZero ==
    (ret.op = "step" /\ ret.raised = "none" /\ (ret.done \/ TopRowsOccupied(env, engine))) =>
        /\ ret.reward = 0
        /\ ret.done
        /\ ret.info.num_rows_cleared = 0

\* a terminal step whose dropped piece completed a row
C6_Witness ==
    /\ ret.op = "step" /\ ret.done
    /\ TopRowsOccupied(env, engine)
    /\ FullRows(env, engine._grid) # {}
    /\ ret.reward = 0

\* C7: a non-terminal step adds the returned num_rows_cleared to the score,
\* returns done = False, and its reward and num_rows_cleared are the pair of
\* the one reward evaluation the step makes, on the grid the drop left.
C7_ScoreAddsRowsCleared ==
    [][(StepReturned /\ ~ret'.done) =>
          LET placed == PlacePiece(env, engine, ret'.info.anchor)
              full   == Cardinality(FullRows(env, placed._grid))
          IN  /\ engine'._score = engine._score + ret'.info.num_rows_cleared
              /\ Count(calls', "_get_reward") = 1
              /\ ret'.info.num_rows_cleared = full
              /\ ret'.reward = full
              /\ ~TopRowsOccupied(env, engine')]_vars

\* a non-terminal step that cleared two rows at once
C7_Witness ==
    /\ ret.op = "step" /\ ~ret.done /\ ret.raised = "none"
    /\ ret.info.num_rows_cleared = 2
    /\ engine._score = 2

C9_FinalScoresAppendOnly ==
    [][/\ IsPrefix(engine._final_scores, engine'._final_scores)
       /\ (ret'.op = "reset" \/ (ret'.op = "step" /\ ~ret'.done)) =>
              engine'._final_scores = engine._final_scores]_vars

\* a non-terminal step in a later episode, the earlier episode's score kept
C9_Witness ==
    /\ ret.op = "step" /\ ~ret.done /\ ret.raised = "none"
    /\ Len(engine._final_scores) = 1
    /\ Cardinality(engine._grid) = env._piece_size_

\* C10: the score is 0 after reset; a step never lowers it, and changes it
\* only on a non-terminal step, by the rows cleared.
C10_ScoreMonotone ==
    [][/\ ret'.op = "reset" => engine'._score = 0
       /\ ret'.op = "step" =>
             /\ engine'._score >= engine._score
             /\ engine'._score # engine._score =>
                   (~ret'.done /\ engine'._score =
                                     engine._score + ret'.info.num_rows_cleared)]_vars

\* a step that clears no row in an episode whose score is already positive
C10_Witness ==
    /\ ret.op = "step" /\ ~ret.done /\ ret.raised = "none"
    /\ ret.info.num_rows_cleared = 0
    /\ engine._score > 0

\* C11: every step that returns reports info["anchor"] = the (translation,
\* rotation) decoded from its action, and the piece it commits is the one
\* dropped from orientation `rotation` and anchor (translation, piece_size - 1).
C11_AnchorIsDecodedAction ==
    [][StepReturned =>
          LET tr       == _get_translation_rotation(env, ret'.action)
              anchored == [engine EXCEPT !._rotation = tr[2],
                                         !._anchor = <<tr[1], env._piece_size_ - 1>>]
              settled  == _update_grid(env, _hard_drop(env, anchored), TRUE)
          IN  /\ ret'.info.anchor = tr
              /\ Pos(calls', "_rotate_piece") < Pos(calls', "_hard_drop")
              /\ Pos(calls', "_anchor=") < Pos(calls', "_hard_drop")
              /\ \A s \in {settled} :
                    IF ret'.done
                    THEN engine' = [s EXCEPT !._final_scores = engine'._final_scores]
                    ELSE engine'._grid = ClearRows(env, s._grid)]_vars

\* a terminal step of a lying domino placed off the first column
C11_Witness ==
    /\ ret.op = "step" /\ ret.done
    /\ ret.info.anchor[2] = 1
    /\ ret.info.anchor[1] > 0
    /\ engine._rotation = 1

\* C12: with piece_size outside {1, 2, 3, 4} the constructor raises the
\* piece_size error whatever grid_dims is, and has assigned no field and
\* created no engine.
C12_BadPieceSizeRejectedFirst ==
    (outcome # "new" /\ args.piece_size \notin PieceSizes) =>
        /\ outcome = "ValueError_piece_size"
        /\ env = NoEnv
        /\ engine = NoEngine

\* piece_size = 5 together with a grid_dims of the wrong length
C12_Witness ==
    /\ outcome = "ValueError_piece_size"
    /\ args.piece_size = 5
    /\ Len(args.grid_dims) # 2

\* the number of distinct physical placements of piece p
PlacementCount(e, p) == Cardinality(Placements(e._width_, Shape(e._piece_size_, p)))

\* decoding is total and injective on [0, num_actions) onto the placements of
\* piece p (stated for the sizes whose decoding is modelled)
DecodeBijective(e, p) ==
    LET placed == [a \in action_space(e) |->
                      PlacementOf(e, _get_translation_rotation(e, a))]
    IN  /\ \A a \in action_space(e) : ~DecodeRaises(e, a)
        /\ \A a, b \in action_space(e) : a # b => placed[a] # placed[b]
        /\ {placed[a] : a \in action_space(e)} = Placements(e._width_, Shape(e._piece_size_, p))

C15_NumPiecesBySize ==
    (outcome # "new" /\ args.piece_size \in PieceSizes
        /\ args.grid_dims \in GridDimsWhitelist) =>
        /\ args.piece_size = 1 => env._num_pieces_ = 1
        /\ args.piece_size = 2 => env._num_pieces_ = 1
        /\ args.piece_size = 3 => env._num_pieces_ = 2
        /\ args.piece_size = 4 => env._num_pieces_ = 7
        /\ env.has_engine

\* C16: a step returns done = True exactly when, after the hard drop and the
\* commit to the grid and before any row is cleared, a cell of the topmost
\* piece_size rows is occupied.
C16_DoneIffTopRowsOccupied ==
    [][StepReturned =>
          LET tr       == _get_translation_rotation(env, ret'.action)
              anchored == [engine EXCEPT !._rotation = tr[2],
                                         !._anchor = <<tr[1], env._piece_size_ - 1>>]
              settled  == _update_grid(env, _hard_drop(env, anchored), TRUE)
          IN  ret'.done <=>
                 (settled._grid \cap
                     ((0 .. (env._width_ - 1)) \X (0 .. (env._piece_size_ - 1))) # {})]_vars

\* the first terminal step of an object, on a grid whose top rows would be
\* empty had the completed row been cleared first
C16_Witness ==
    /\ ret.op = "step" /\ ret.done
    /\ Len(engine._final_scores) = 1
    /\ \A c \in ClearRows(env, engine._grid) : c[2] >= env._piece_size_
    /\ \E c \in engine._grid : c[2] < env._piece_size_

\* C17: after reset, and after any step that returned done = False, no cell
\* of the topmost piece_size rows is occupied.
C17_ReadyTopRowsEmpty ==
    (ret.op = "reset" \/ (ret.op = "step" /\ ret.raised = "none" /\ ~ret.done)) =>
        \A x \in 0 .. (env._width_ - 1), y \in 0 .. (env._piece_size_ - 1) :
            <<x, y>> \notin engine._grid

\* a non-terminal step that left a cell right below the top rows
C17_Witness ==
    /\ ret.op = "step" /\ ret.raised = "none" /\ ~ret.done
    /\ \E c \in engine._grid : c[2] = env._piece_size_

\* C18: the checks run in the order piece_size, length of grid_dims, listed
\* pairs, and the first that fails decides the error: with a valid piece_size
\* a grid_dims that has not exactly two elements raises the malformed-format
\* error (IndexError), never the unsupported-dimensions error.
C18_LengthCheckedBeforeList ==
    outcome # "new" =>
        /\ args.piece_size \notin PieceSizes => outcome = "ValueError_piece_size"
        /\ (args.piece_size \in PieceSizes /\ Len(args.grid_dims) # 2) =>
              outcome = "IndexError_grid_dims"
        /\ (args.piece_size \in PieceSizes /\ Len(args.grid_dims) = 2
              /\ args.grid_dims \notin GridDimsWhitelist /\ ~args.pre_pep585) =>
              outcome = "ValueError_grid_dims"
        /\ outcome # "ok" => (env = NoEnv /\ engine = NoEngine)

\* a valid piece_size with a three-element grid_dims
C18_Witness ==
    /\ outcome = "IndexError_grid_dims"
    /\ args.piece_size = 4
    /\ args.grid_dims = <<20, 10, 1>>

\* C19: the generator the environment owns and seeds at construction is
\* handed to the engine, so that the pieces drawn by reset and step come from
\* it.
C19_GeneratorHandedToEngine ==
    (ret.op \in {"reset", "step"} /\ "_reset" \in Range(calls)) =>
        /\ env._np_random = _seed
        /\ env.has_engine
        /\ "np_random" \in env.engine_kwargs

=============================================================================
